---- MODULE Spec2Model ----
(***************************************************************************)
(* Model of langformer's transpilation attempt loop:                       *)
(*   - LLMTranspilerAgent.transpile / _sequential_attempts                 *)
(*     (src/langformer/agents/transpiler.py),                              *)
(*   - ParallelExplorer.explore (src/langformer/runtime/parallel.py),      *)
(*   - register_digest / CodeDeduplicator.register                         *)
(*     (src/langformer/runtime/dedup.py),                                  *)
(*   - run_worker (src/langformer/worker/transpile_worker.py), as far as   *)
(*     it wires a registry-backed dedup handler to a transpile call.       *)
(*                                                                         *)
(* A "lane" is one invocation of _sequential_attempts.  A "call" is one    *)
(* invocation of transpile: in-process it owns one lane (sequential) or    *)
(* parallel_workers lanes (threads under ParallelExplorer); in worker mode *)
(* every worker process makes its own sequential call.                     *)
(*                                                                         *)
(* Two further state machines stand beside the attempt loop:               *)
(*   - the ThreadPoolExecutor that ParallelExplorer.explore creates        *)
(*     (PoolSpec), with more lanes than the attempt loop is explored with, *)
(*   - WorkerManager.run and _worker_entry                                 *)
(*     (src/langformer/worker/manager.py) as called by                     *)
(*     TranspilationOrchestrator._transpile_with_workers (ManagerSpec).    *)
(***************************************************************************)
EXTENDS Integers, Sequences, FiniteSets, TLC

\* ---------------------------------------------------------------- bounds
MaxRetries == 2
MaxLanes == 2
\* attempts of all lanes together, on calls whose lanes run at once
MaxConcurrentAttempts == 4
\* callables handed to one ParallelExplorer.explore call (PoolSpec)
MaxPoolLanes == 6
\* os.cpu_count() of the machine (PoolSpec)
MaxCpus == 2
\* worker_manager.workers and worker_manager.variants_per_unit (ManagerSpec)
MaxManagerWorkers == 2
MaxVariants == 3

Lanes == 1..MaxLanes
None == "None"
Codes == {"c1", "c2"}
Owners == {"variant_00", "variant_01"}

Max(a, b) == IF a >= b THEN a ELSE b
Min(a, b) == IF a <= b THEN a ELSE b

\* (low, high) pairs for temperature_range, in tenths
TemperatureRanges == {<<2, 6>>, <<0, 4>>}

\* ---------------------------------------------------------------- state
VARIABLES
    max_retries,       \* LLMTranspilerAgent._max_retries
    temperature_range, \* LLMTranspilerAgent._temperature_range
    parallel_workers,  \* LLMTranspilerAgent._parallel_workers
    processes,         \* number of worker processes calling run_worker
    verifier,          \* TRUE iff transpile got a verifier
    dedup_handler,     \* "none" | "stub" | "registry"
    event_factory,     \* TRUE iff an event adapter factory is supplied
    cancel_event,      \* [present, is_set]
    worker_id,         \* lane -> CodeDeduplicator.worker_id
    lane,              \* lane -> local state of _sequential_attempts
    registry,          \* digest -> entry file in shared_dir
    explorer,          \* state of ParallelExplorer.explore
    transpile,         \* call -> state of LLMTranspilerAgent.transpile
    pool,              \* the ThreadPoolExecutor of one explore call
    manager,           \* state of WorkerManager.run
    procs              \* task index -> worker process

\* what the steps of the attempt loop leave alone
cfgVars == <<max_retries, temperature_range, parallel_workers, processes, verifier,
             dedup_handler, event_factory, worker_id, pool, manager, procs>>
\* the state of the attempt loop
agentVars == <<max_retries, temperature_range, parallel_workers, processes,
               verifier, dedup_handler, event_factory, cancel_event,
               worker_id, lane, registry, explorer, transpile>>
vars == <<max_retries, temperature_range, parallel_workers, processes, verifier, dedup_handler,
          event_factory, cancel_event, worker_id, lane, registry, explorer,
          transpile, pool, manager, procs>>

\* ---------------------------------------------------------------- values
Null == [null |-> TRUE]                 \* Python None where a dict is expected
UnitId == "u"                           \* unit.id
EmptyText == ""
Outputs == Codes \cup {EmptyText}       \* texts a generator can hand back

\* json.dumps(x): a string that encodes x (not x itself)
JsonDumps(x) == [json |-> x]

\* hashlib.sha256(code.encode("utf-8")).hexdigest()
Sha256(code) == <<"sha256", code>>
Digests == {Sha256(c) : c \in Outputs}

\* raise TranspilationAttemptError(message); unit is the unit id the message
\* embeds, None when it embeds none; the message is the exception's only
\* argument, so it holds no verification detail
Raise(message, unit) ==
    [type |-> "TranspilationAttemptError", message |-> message, unit |-> unit,
     verification |-> Null]
CanceledError == Raise("Transpiler canceled by orchestrator", None)
ProviderError == Raise("LLM provider failed", None)
DuplicateError == Raise("Duplicate candidate seen by another worker", None)
BudgetError == Raise("Failed to transpile unit within retry budget", UnitId)
AllFailedError == Raise("All parallel attempts failed for unit", UnitId)

\* the errors of the three terminal outcomes of a lane other than a provider
\* failure
TerminalErrors == {BudgetError, CanceledError, DuplicateError}

\* ---------------------------------------------------------------- calls and lanes
\* transpile dispatches to the explorer iff a verifier is given and
\* parallel_workers > 1
UsesExplorer == verifier /\ parallel_workers > 1

\* the transpile calls of the run: one per worker process, else one
Calls == 1..processes

\* the lanes of call c: range(parallel_workers) under the explorer, else one
LanesOf(c) == IF UsesExplorer THEN 1..parallel_workers ELSE {c}
ActiveLanes == UNION {LanesOf(c) : c \in Calls}

\* variant_label handed to _sequential_attempts
VariantLabel(l) ==
    IF UsesExplorer THEN [label |-> "parallel", idx |-> l - 1]
    ELSE IF processes > 1 THEN [label |-> "variant", idx |-> l - 1]
    ELSE Null

\* ---------------------------------------------------------------- temperature
\* temperatures are exact fractions over this denominator, max(1, K - 1);
\* a temperature is held as its numerator
Denominator == Max(1, max_retries - 1)

\* _pick_temperature(idx): low + span * min(1.0, idx / max(1, K - 1)),
\* low when K <= 1
PickTemperature(idx) ==
    LET low == temperature_range[1]
        high == temperature_range[2]
        span == high - low
    IN  IF max_retries <= 1 THEN low * Denominator
        ELSE low * Denominator + span * Min(Denominator, idx)

\* the temp argument of _sequential_attempts: _pick_temperature(idx) for
\* lane idx of the explorer, None on a sequential call
TempArgument(l) ==
    IF UsesExplorer THEN [value |-> PickTemperature(l - 1)] ELSE Null

\* "temp or self._pick_temperature(attempt)": None and 0.0 are both falsy
TemperatureValue(temp, attempt) ==
    IF temp = Null \/ temp.value = 0 THEN PickTemperature(attempt)
    ELSE temp.value

\* ---------------------------------------------------------------- dedup registry
AbsentEntry == [state |-> "absent", owner_worker_id |-> None, iter |-> 0]
\* the file exists but its JSON payload is not (completely) written yet
EmptyEntry == [state |-> "empty", owner_worker_id |-> None, iter |-> 0]
WrittenEntry(wid, iter) ==
    [state |-> "written", owner_worker_id |-> wid, iter |-> iter]

\* mutant: entry.open("w"), which creates or truncates the file
OpenTruncating(reg, d) == TRUE

\* entry.open("x"): creates the file iff it does not exist
OpenExclusive(reg, d) == reg[d].state = "absent"

\* mutant: the owner of an existing entry is never recovered
ReadOwnerLost(reg, d) == None

\* json.loads(entry.read_text()).get("owner_worker_id"), None when unparsable
ReadOwner(reg, d) ==
    IF reg[d].state = "written" THEN reg[d].owner_worker_id ELSE None

\* mutant: the two duplicate statuses are swapped
DuplicateStatusSwapped(owner, wid) ==
    IF owner = wid THEN "duplicate_cross_worker" ELSE "duplicate_same_worker"

\* status of a call that found the entry existing
DuplicateStatus(owner, wid) ==
    IF owner = wid THEN "duplicate_same_worker" ELSE "duplicate_cross_worker"

\* CodeDeduplicator.register's return value
DedupInfo(status, owner, digest) ==
    [status |-> status, owner |-> owner, digest |-> digest]

\* what a caller-supplied handler that is no registry can hand back
StubInfos ==
    {[status |-> s] : s \in {"unique", "duplicate_same_worker",
                             "duplicate_cross_worker", "error"}} \cup {Null}

\* ---------------------------------------------------------------- lane helpers
\* _build_prompt_spec: the prompt context of one attempt
BuildPromptSpec(feedback, attempt, previous_code) ==
    [kind |-> IF feedback = Null THEN "transpile_initial"
              ELSE "transpile_refine",
     feedback |-> feedback,
     attempt |-> attempt,
     previous_code |-> IF previous_code \in {None, EmptyText}
                       THEN "unit.source_code"
                       ELSE previous_code]

\* VerificationFeedback.to_dict
ToDict(details) == details.data

\* what verifier.verify returns for the candidate of lane l, attempt a
VerifyResults(l, a) ==
    {[passed |-> p,
      details |-> [data |-> [passed |-> p, lane |-> l, attempt |-> a],
                   tests |-> "tests"]] : p \in BOOLEAN}

\* mutant: the verification note is not carried into the next attempt
VerificationFeedbackDropped(note) == Null

\* feedback for the next attempt after a failed verification
VerificationFeedback(note) == JsonDumps(note)

\* mutant: a same-worker duplicate leaves the feedback as it was
RepetitionFeedbackDropped(info) == Null

\* feedback for the next attempt after a same-worker duplicate
RepetitionFeedback(info) ==
    JsonDumps([reason |-> "duplicate_same_worker", dedup |-> info])

\* mutant: the loop never looks at the cancellation signal
CancelIgnored(ev) == FALSE

\* the cancellation test at the head of every loop iteration
CancelRequested(ev) == ev.present /\ ev.is_set

\* the record the model keeps of one loop iteration (history, not program state)
NewLogEntry(task_spec) ==
    [prompt |-> task_spec, stream_called |-> FALSE, stream |-> Null,
     provider_called |-> FALSE,
     provider_raised |-> FALSE, temperature |-> Null, code |-> None,
     dedup |-> Null,
     verified |-> FALSE, passed |-> FALSE, verification |-> Null]

\* end of the body of one iteration of "for attempt in range(1, max_retries+1)":
\* the next iteration, or the raise after the loop
\* mutant: range(1, max_retries + 2)
HasNextAttemptOffByOne(attempt, retries) == attempt <= retries

HasNextAttempt(attempt, retries) == attempt < retries

Continue(s) ==
    IF HasNextAttempt(s.attempt, max_retries)
    THEN [s EXCEPT !.attempt = s.attempt + 1, !.pc = "loop"]
    ELSE [s EXCEPT !.pc = "done", !.error = BudgetError]

\* adapter_instance: the factory's adapter, None without a factory or when
\* the factory raised
AdapterOutcomes == IF event_factory THEN {"adapter", None} ELSE {None}

\* stream_details: what adapter_instance.stream returned, {"error": ...} when
\* it raised, None when there is no adapter
StreamOutcomes(adapter) ==
    IF adapter = None THEN {Null}
    ELSE {[output_text |-> t, response_id |-> "resp", error |-> None] :
              t \in Outputs}
         \cup {[output_text |-> EmptyText, response_id |-> None,
                error |-> "stream boom"]}

\* mutant: the provider is asked in every attempt
NeedsProviderAlways(stream_details) == TRUE

\* mutant: the provider is asked only when there was no stream call
NeedsProviderWithoutStream(stream_details) == stream_details = Null

\* the synchronous provider is asked when streaming gave no text
NeedsProvider(stream_details) ==
    stream_details = Null \/ stream_details.output_text = EmptyText

\* several lanes run at once: threads of the explorer, or worker processes
Concurrent == UsesExplorer \/ processes > 1

\* provider.generate returns a text or raises (the empty text is explored on
\* calls with a single lane)
ProviderOutcomes ==
    {[raised |-> FALSE, text |-> t] :
         t \in IF Concurrent THEN Codes ELSE Outputs}
    \cup {[raised |-> TRUE, text |-> EmptyText]}

\* mutant: a provider exception is caught and the loop goes on
OnProviderErrorRetried(s) == Continue(s)

\* a provider exception inside the loop body
OnProviderError(s) == [s EXCEPT !.pc = "done", !.error = ProviderError]

\* notes of the attempt's candidate
Notes(attempt, source, variant_label, stream_details) ==
    [attempt |-> attempt,
     prompt_result |-> source,
     variant |-> variant_label,
     stream |-> IF stream_details = Null THEN Null
                ELSE [response_id |-> stream_details.response_id,
                      error |-> stream_details.error],
     dedup |-> Null,
     verification |-> Null]

\* CandidatePatchSet(files={target_path: code}, notes=notes)
Candidate(code, notes) == [files |-> code, notes |-> notes]

LastLog(s) == s.log[Len(s.log)]
SetLog(s, entry) == [s EXCEPT !.log[Len(s.log)] = entry]

\* ---------------------------------------------------------------- lane actions
\* head of a loop iteration: the cancellation test, then the prompt of
\* this attempt
LoopHead(l) ==
    /\ lane[l].pc = "loop"
    /\ LET s == lane[l] IN
       lane' = [lane EXCEPT ![l] =
           IF CancelRequested(cancel_event)
           THEN [s EXCEPT !.pc = "done", !.error = CanceledError]
           ELSE [s EXCEPT !.pc = "generate",
                          !.log = Append(s.log, NewLogEntry(
                              BuildPromptSpec(s.feedback, s.attempt,
                                              s.previous_code)))]]
    /\ UNCHANGED <<cfgVars, cancel_event, registry, explorer, transpile>>

\* the generation step of an attempt: event stream first, synchronous
\* provider when that gave no text
AfterGenerate(s, l, adapter, stream_details, gen) ==
    LET streamed == [LastLog(s) EXCEPT !.stream_called = (adapter # None),
                                       !.stream = stream_details]
        asked == [streamed EXCEPT
                     !.provider_called = TRUE,
                     !.temperature =
                         [value |-> TemperatureValue(s.temp, s.attempt)]]
    IN  IF NeedsProvider(stream_details)
        THEN IF gen.raised
             THEN OnProviderError(
                      SetLog(s, [asked EXCEPT !.provider_raised = TRUE]))
             ELSE [SetLog(s, [asked EXCEPT !.code = gen.text])
                   EXCEPT !.pc = "dedup",
                          !.code = gen.text,
                          !.notes = Notes(s.attempt, "provider",
                                          VariantLabel(l), stream_details)]
        ELSE [SetLog(s, [streamed EXCEPT
                             !.code = stream_details.output_text])
              EXCEPT !.pc = "dedup",
                     !.code = stream_details.output_text,
                     !.notes = Notes(s.attempt, "event_stream",
                                     VariantLabel(l), stream_details)]

Generate(l) ==
    /\ lane[l].pc = "generate"
    /\ \E adapter \in AdapterOutcomes :
       \E stream_details \in StreamOutcomes(adapter) :
       \E gen \in ProviderOutcomes :
           lane' = [lane EXCEPT ![l] =
               AfterGenerate(lane[l], l, adapter, stream_details, gen)]
    /\ UNCHANGED <<cfgVars, cancel_event, registry, explorer, transpile>>

\* mutant: the candidate goes to the verify step with or without a verifier
AcceptAlwaysVerifies(s) ==
    [s EXCEPT !.previous_code = s.code, !.pc = "verify"]

\* the candidate is built; without a verifier it is returned, else verified
Accept(s) ==
    [s EXCEPT !.previous_code = s.code,
              !.pc = IF verifier THEN "verify" ELSE "done",
              !.result = IF verifier THEN Null
                         ELSE Candidate(s.code, s.notes)]

\* mutant: a same-worker duplicate is treated as any other answer
SkipsVerificationNever(info) == FALSE

\* the handler's answer sends the loop to its next iteration ("continue")
SkipsVerification(info) ==
    info # Null /\ info.status = "duplicate_same_worker"

\* mutant: a cross-worker duplicate is treated as any other answer
AbortsLaneNever(info) == FALSE

\* the handler's answer makes the loop raise
AbortsLane(info) ==
    info # Null /\ info.status = "duplicate_cross_worker"

\* mutant: a skipped duplicate becomes the previous code
AfterDedupSkipKeepsCode(s0, info) ==
    LET s == IF info = Null THEN s0
             ELSE [SetLog(s0, [LastLog(s0) EXCEPT !.dedup = info])
                   EXCEPT !.notes.dedup = info]
    IN  IF SkipsVerification(info)
        THEN Continue([s EXCEPT !.feedback = RepetitionFeedback(info),
                                !.previous_code = s.code])
        ELSE IF AbortsLane(info)
        THEN [s EXCEPT !.pc = "done", !.error = DuplicateError]
        ELSE Accept(s)

\* what the loop does with the dedup handler's answer
AfterDedup(s0, info) ==
    LET s == IF info = Null THEN s0
             ELSE [SetLog(s0, [LastLog(s0) EXCEPT !.dedup = info])
                   EXCEPT !.notes.dedup = info]
    IN  IF SkipsVerification(info)
        THEN Continue([s EXCEPT !.feedback = RepetitionFeedback(info)])
        ELSE IF AbortsLane(info)
        THEN [s EXCEPT !.pc = "done", !.error = DuplicateError]
        ELSE Accept(s)

\* no dedup handler
DedupNone(l) ==
    /\ lane[l].pc = "dedup"
    /\ dedup_handler = "none"
    /\ lane' = [lane EXCEPT ![l] = Accept(lane[l])]
    /\ UNCHANGED <<cfgVars, cancel_event, registry, explorer, transpile>>

\* a caller-supplied handler that answers on its own
DedupStub(l) ==
    /\ lane[l].pc = "dedup"
    /\ dedup_handler = "stub"
    /\ \E info \in StubInfos :
           lane' = [lane EXCEPT ![l] = AfterDedup(lane[l], info)]
    /\ UNCHANGED <<cfgVars, cancel_event, registry, explorer, transpile>>

\* register_digest: entry.open("x")
RegisterOpen(l) ==
    /\ lane[l].pc = "dedup"
    /\ dedup_handler = "registry"
    /\ LET d == Sha256(lane[l].code) IN
       IF OpenExclusive(registry, d)
       THEN /\ registry' = [registry EXCEPT ![d] = EmptyEntry]
            /\ lane' = [lane EXCEPT ![l].pc = "register_write"]
       ELSE /\ lane' = [lane EXCEPT ![l].pc = "register_read"]
            /\ UNCHANGED registry
    /\ UNCHANGED <<cfgVars, cancel_event, explorer, transpile>>

\* register_digest: handle.write(payload), close, return ("unique", None)
RegisterWrite(l) ==
    /\ lane[l].pc = "register_write"
    /\ LET d == Sha256(lane[l].code) IN
       /\ registry' = [registry EXCEPT ![d] =
              WrittenEntry(worker_id[l], lane[l].attempt)]
       /\ lane' = [lane EXCEPT ![l] =
              AfterDedup(lane[l], DedupInfo("unique", None, d))]
    /\ UNCHANGED <<cfgVars, cancel_event, explorer, transpile>>

\* register_digest: the FileExistsError branch
RegisterRead(l) ==
    /\ lane[l].pc = "register_read"
    /\ LET d == Sha256(lane[l].code)
           owner == ReadOwner(registry, d)
       IN  lane' = [lane EXCEPT ![l] =
               AfterDedup(lane[l],
                          DedupInfo(DuplicateStatus(owner, worker_id[l]),
                                    owner, d))]
    /\ UNCHANGED <<cfgVars, cancel_event, registry, explorer, transpile>>

\* mutant: the candidate is returned whatever the verifier said
VerificationIgnored(result) == TRUE

\* mutant: a passing candidate is not returned
VerificationNeverPasses(result) == FALSE

\* "if result.passed" after verifier.verify
VerificationPassed(result) == result.passed

\* verifier.verify and the decision on its result
AfterVerify(s, result) ==
    LET verification_note == ToDict(result.details)
        noted == [SetLog(s, [LastLog(s) EXCEPT
                                !.verified = TRUE,
                                !.passed = result.passed,
                                !.verification = verification_note])
                  EXCEPT !.notes.verification = verification_note]
    IN  IF VerificationPassed(result)
        THEN [noted EXCEPT !.pc = "done",
                           !.result = Candidate(noted.code, noted.notes)]
        ELSE Continue([noted EXCEPT
                          !.feedback = VerificationFeedback(verification_note)])

Verify(l) ==
    /\ lane[l].pc = "verify"
    /\ \E result \in VerifyResults(l, lane[l].attempt) :
           lane' = [lane EXCEPT ![l] = AfterVerify(lane[l], result)]
    /\ UNCHANGED <<cfgVars, cancel_event, registry, explorer, transpile>>

\* the orchestrator (or any holder of the event) sets the cancellation signal
SetCancel ==
    /\ cancel_event.present
    /\ ~cancel_event.is_set
    /\ cancel_event' = [cancel_event EXCEPT !.is_set = TRUE]
    /\ UNCHANGED <<cfgVars, lane, registry, explorer, transpile>>

\* ---------------------------------------------------------------- transpile and explorer
\* transpile: dispatch to one sequential lane or to the explorer's lanes
\* (ThreadPoolExecutor() has more workers than MaxLanes lanes, so every
\* submitted lane gets a thread)
TranspileCall(c) ==
    /\ c \in Calls
    /\ transpile[c].pc = "idle"
    /\ transpile' = [transpile EXCEPT ![c].pc = "running"]
    /\ lane' = [l \in Lanes |->
                   IF l \in LanesOf(c)
                   THEN [lane[l] EXCEPT !.pc = "loop",
                                        !.temp = TempArgument(l)]
                   ELSE lane[l]]
    /\ explorer' = IF UsesExplorer
                   THEN [explorer EXCEPT !.pc = "waiting"]
                   ELSE explorer
    /\ UNCHANGED <<cfgVars, cancel_event, registry>>

\* mutant: the first finished future ends explore, result or not
ReturnsFromAny(s) == TRUE

\* future.result() did not raise and "result is not None"
ReturnsFrom(s) == s.error = Null /\ s.result # Null

\* mutant: explore goes through every future and the last result wins
ObservedLastWins(ex, l, s) ==
    [ex EXCEPT !.seen = ex.seen \cup {l},
               !.result = IF ReturnsFrom(s) THEN s.result ELSE ex.result,
               !.pc = IF ex.seen \cup {l} = LanesOf(1) /\ ReturnsFrom(s)
                      THEN "shutdown" ELSE ex.pc]

\* the body of "for future in as_completed(futures)" for lane l's future
Observed(ex, l, s) ==
    IF ReturnsFrom(s)
    THEN [ex EXCEPT !.pc = "shutdown", !.seen = ex.seen \cup {l},
                    !.result = s.result]
    ELSE [ex EXCEPT !.seen = ex.seen \cup {l}]

\* explore: as_completed hands over one finished future
ExploreNext(l) ==
    /\ explorer.pc = "waiting"
    /\ l \in LanesOf(1)
    /\ l \notin explorer.seen
    /\ lane[l].pc = "done"
    /\ explorer' = Observed(explorer, l, lane[l])
    /\ UNCHANGED <<cfgVars, cancel_event, lane, registry, transpile>>

\* explore: every future was handed over and none had a result
ExploreExhausted ==
    /\ explorer.pc = "waiting"
    /\ explorer.seen = LanesOf(1)
    /\ explorer' = [explorer EXCEPT !.pc = "returned"]
    /\ UNCHANGED <<cfgVars, cancel_event, lane, registry, transpile>>

\* explore: leaving the "with ThreadPoolExecutor()" block joins the pool
ExploreShutdown ==
    /\ explorer.pc = "shutdown"
    /\ \A l \in LanesOf(1) : lane[l].pc = "done"
    /\ explorer' = [explorer EXCEPT !.pc = "returned"]
    /\ UNCHANGED <<cfgVars, cancel_event, lane, registry, transpile>>

\* transpile returns the sequential lane's outcome unchanged
TranspileReturnSequential(c) ==
    /\ c \in Calls
    /\ ~UsesExplorer
    /\ transpile[c].pc = "running"
    /\ lane[c].pc = "done"
    /\ transpile' = [transpile EXCEPT ![c] =
           [pc |-> "done", result |-> lane[c].result,
            error |-> lane[c].error]]
    /\ UNCHANGED <<cfgVars, cancel_event, lane, registry, explorer>>

\* transpile returns the explorer's candidate, or raises when there is none
TranspileReturnParallel ==
    /\ UsesExplorer
    /\ transpile[1].pc = "running"
    /\ explorer.pc = "returned"
    /\ transpile' = [transpile EXCEPT ![1] =
           [pc |-> "done", result |-> explorer.result,
            error |-> IF explorer.result = Null THEN AllFailedError
                      ELSE Null]]
    /\ UNCHANGED <<cfgVars, cancel_event, lane, registry, explorer>>

\* ---------------------------------------------------------------- thread pool and worker manager: values
PoolLanes == 1..MaxPoolLanes

\* no explore call is in progress
IdlePool ==
    [pc |-> "idle", cpu_count |-> 1, n |-> 0,
     futures |-> [i \in PoolLanes |-> "unsubmitted"],
     seen |-> {}, result |-> Null]

\* task indexes (enumerate(zip(tasks, workdirs)) counts from 0)
TaskIds == 0..(Max(MaxVariants, Max(1, MaxManagerWorkers)) - 1)

\* no run call is in progress
IdleManager ==
    [pc |-> "idle", workers |-> 0, variants_per_unit |-> 0, next |-> 0,
     queue |-> <<>>, winner |-> Null, success_event |-> FALSE,
     joined |-> 0, error |-> Null]

NoProcesses == [t \in TaskIds |-> [state |-> "unstarted", result |-> Null]]

\* ---------------------------------------------------------------- specification
InitLane ==
    [pc |-> "idle", attempt |-> 1, temp |-> Null, feedback |-> Null,
     previous_code |-> None,
     code |-> None, notes |-> Null, result |-> Null, error |-> Null,
     log |-> <<>>]

\* entries an earlier unit of the same run may have left in shared_dir
InitRegistries ==
    {[d \in Digests |-> AbsentEntry]}
    \cup {[d \in Digests |-> IF d = e THEN WrittenEntry(o, 1)
                             ELSE AbsentEntry] :
              e \in Digests, o \in Owners}

Init ==
    /\ \E mr \in 0..MaxRetries : max_retries = Max(1, mr)
    /\ \E pw \in 0..MaxLanes : parallel_workers = Max(1, pw)
    /\ processes \in 1..MaxLanes
    /\ verifier \in BOOLEAN
    /\ dedup_handler \in {"none", "stub", "registry"}
    /\ event_factory \in BOOLEAN
    /\ cancel_event \in [present : BOOLEAN, is_set : {FALSE}]
    /\ temperature_range \in TemperatureRanges
    \* a second range is explored on in-process calls with no dedup handler
    \* and no cancellation signal
    /\ temperature_range # <<2, 6>> =>
           /\ dedup_handler = "none"
           /\ processes = 1
           /\ ~cancel_event.present
    \* run_worker: one sequential call per process, always with a verifier,
    \* a registry handler or none, and no cancel_event
    /\ processes > 1 =>
           /\ parallel_workers = 1
           /\ verifier
           /\ dedup_handler # "stub"
           /\ ~cancel_event.present
    \* one handler (one CodeDeduplicator) per call
    /\ worker_id \in [Lanes -> Owners]
    /\ \A l \in Lanes :
           (dedup_handler # "registry" \/ processes = 1 \/ l = 1) =>
               worker_id[l] = "variant_00"
    \* shared_dir may hold an entry of an earlier unit (explored on calls
    \* with a single lane)
    /\ registry \in InitRegistries
    /\ (dedup_handler # "registry" \/ Concurrent) =>
           \A d \in Digests : registry[d] = AbsentEntry
    \* event streaming is explored on calls with a single lane, with a
    \* registry handler or none
    /\ Concurrent => ~event_factory
    /\ event_factory => dedup_handler # "stub"
    \* under the explorer, cancellation is explored with no dedup handler
    /\ (UsesExplorer /\ cancel_event.present) => dedup_handler = "none"
    /\ Concurrent =>
           Max(parallel_workers, processes) * max_retries
               <= MaxConcurrentAttempts
    /\ lane = [l \in Lanes |-> InitLane]
    /\ explorer = [pc |-> "idle", seen |-> {}, result |-> Null]
    /\ transpile = [c \in Lanes |->
                       [pc |-> "idle", result |-> Null, error |-> Null]]
    /\ pool = IdlePool
    /\ manager = IdleManager
    /\ procs = NoProcesses

Next ==
    \/ \E c \in Lanes : TranspileCall(c)
    \/ \E l \in Lanes : LoopHead(l)
    \/ \E l \in Lanes : Generate(l)
    \/ \E l \in Lanes : DedupNone(l)
    \/ \E l \in Lanes : DedupStub(l)
    \/ \E l \in Lanes : RegisterOpen(l)
    \/ \E l \in Lanes : RegisterWrite(l)
    \/ \E l \in Lanes : RegisterRead(l)
    \/ \E l \in Lanes : Verify(l)
    \/ SetCancel
    \/ \E l \in Lanes : ExploreNext(l)
    \/ ExploreExhausted
    \/ ExploreShutdown
    \/ \E c \in Lanes : TranspileReturnSequential(c)
    \/ TranspileReturnParallel

Spec == Init /\ [][Next]_vars

\* a step of lane l's loop
LaneStep(l) ==
    \/ LoopHead(l)
    \/ Generate(l)
    \/ DedupNone(l)
    \/ DedupStub(l)
    \/ RegisterOpen(l)
    \/ RegisterWrite(l)
    \/ RegisterRead(l)
    \/ Verify(l)

\* the generation, dedup and verification calls return: while some lane has
\* a step to take, some lane takes one
FairSpec == Spec /\ WF_vars(\E l \in Lanes : LaneStep(l))

\* ---------------------------------------------------------------- counts over a lane's history
Generated(e) == e.stream_called \/ e.provider_called
GenerationSteps(l) ==
    Cardinality({i \in DOMAIN lane[l].log : Generated(lane[l].log[i])})
ProviderCalls(l) ==
    Cardinality({i \in DOMAIN lane[l].log : lane[l].log[i].provider_called})
VerifyCalls(l) ==
    Cardinality({i \in DOMAIN lane[l].log : lane[l].log[i].verified})
SkippedAttempts(l) ==
    Cardinality({i \in DOMAIN lane[l].log :
                    SkipsVerification(lane[l].log[i].dedup)})

\* ---------------------------------------------------------------- claims
\* C1: with a verifier, a candidate returned by transpile (sequential or
\* parallel) is the candidate of a lane whose last verify call passed it:
\* same code, notes carrying that verification detail; no lane returns a
\* candidate whose verification failed.
C1_ReturnedCandidateVerified ==
    /\ \A c \in Calls :
           (transpile[c].pc = "done" /\ transpile[c].result # Null /\ verifier)
           => \E l \in LanesOf(c) :
                  /\ lane[l].pc = "done"
                  /\ lane[l].log # <<>>
                  /\ LastLog(lane[l]).verified
                  /\ LastLog(lane[l]).passed
                  /\ transpile[c].result.files = LastLog(lane[l]).code
                  /\ transpile[c].result.notes.verification
                         = LastLog(lane[l]).verification
                  /\ transpile[c].result.notes.attempt = Len(lane[l].log)
    /\ \A l \in ActiveLanes :
           (verifier /\ lane[l].result # Null)
           => /\ LastLog(lane[l]).verified
              /\ LastLog(lane[l]).passed
              /\ lane[l].result.files = LastLog(lane[l]).code

\* parallel mode returned the candidate of an attempt 2, after a failed
\* verification of attempt 1
C1_Witness ==
    /\ UsesExplorer
    /\ transpile[1].pc = "done"
    /\ transpile[1].result # Null
    /\ transpile[1].result.notes.attempt = 2

\* C2: a lane with max_retries = K, no dedup handler, no cancellation seen
\* and no provider exception, whose verifier failed every candidate, ends
\* with the budget error and no candidate after exactly K generation steps
\* (K provider calls when nothing is streamed) and exactly K verify calls.
C2_ExhaustionAfterKAttempts ==
    \A l \in ActiveLanes :
        ( /\ lane[l].pc = "done"
          /\ verifier
          /\ dedup_handler = "none"
          /\ lane[l].error # CanceledError
          /\ \A i \in DOMAIN lane[l].log :
                 lane[l].log[i].verified /\ ~lane[l].log[i].passed )
        => /\ lane[l].error = BudgetError
           /\ lane[l].result = Null
           /\ Len(lane[l].log) = max_retries
           /\ GenerationSteps(l) = max_retries
           /\ (~event_factory => ProviderCalls(l) = max_retries)
           /\ VerifyCalls(l) = max_retries

C2_Witness ==
    \E l \in ActiveLanes :
        /\ max_retries = 2
        /\ dedup_handler = "none"
        /\ lane[l].pc = "done"
        /\ lane[l].error = BudgetError
        /\ VerifyCalls(l) = 2
        /\ ProviderCalls(l) = 2

C4_FeedbackThreading ==
    \A l \in ActiveLanes :
        \A i \in DOMAIN lane[l].log :
            /\ i = 1 => lane[l].log[i].prompt.feedback = Null
            /\ (i > 1 /\ lane[l].log[i - 1].verified)
               => lane[l].log[i].prompt.feedback
                      = JsonDumps(lane[l].log[i - 1].verification)
            /\ \A m \in ActiveLanes \ {l} :
                   \A j \in DOMAIN lane[m].log :
                       lane[m].log[j].verified
                       => lane[l].log[i].prompt.feedback
                              # JsonDumps(lane[m].log[j].verification)

\* two lanes running at once, each in its attempt 2 with its own feedback
C4_Witness ==
    \E l, m \in ActiveLanes :
        /\ l # m
        /\ Len(lane[l].log) = 2
        /\ Len(lane[m].log) = 2
        /\ lane[l].log[1].verified
        /\ lane[m].log[1].verified
        /\ lane[l].log[2].prompt.feedback # Null

\* ---------------------------------------------------------------- register calls of the run
DuplicateStatuses == {"duplicate_same_worker", "duplicate_cross_worker"}

\* the register calls on digest d that have returned: <<lane, attempt>>
RegisterCalls(d) ==
    {p \in ActiveLanes \X (1..max_retries) :
        /\ p[2] \in DOMAIN lane[p[1]].log
        /\ lane[p[1]].log[p[2]].dedup # Null
        /\ lane[p[1]].log[p[2]].dedup.digest = d}
StatusOf(p) == lane[p[1]].log[p[2]].dedup.status
OwnerSeenBy(p) == lane[p[1]].log[p[2]].dedup.owner

\* the lanes that created the entry of d and have not written it yet
Writing(d) ==
    {l \in ActiveLanes :
        lane[l].pc = "register_write" /\ Sha256(lane[l].code) = d}

\* C5: of two register calls on the same code text by two distinct owners,
\* the one that created the entry returns unique and the other returns
\* duplicate_cross_worker, whichever came first and however they interleave.
C5_CrossOwnerExclusive ==
    dedup_handler = "registry" =>
        \A d \in Digests :
            \A p, q \in RegisterCalls(d) :
                (worker_id[p[1]] # worker_id[q[1]])
                => /\ StatusOf(p) = "unique"
                      => StatusOf(q) = "duplicate_cross_worker"
                   /\ ~(StatusOf(p) = "unique" /\ StatusOf(q) = "unique")
                   /\ (StatusOf(p) \in DuplicateStatuses /\ Writing(d) # {}
                       /\ \A l \in Writing(d) : worker_id[l] # worker_id[p[1]])
                      => StatusOf(p) = "duplicate_cross_worker"

\* two owners registered the same code: the later lane index created the
\* entry, the earlier one found it written
C5_Witness ==
    /\ dedup_handler = "registry"
    /\ \E d \in Digests :
           \E p, q \in RegisterCalls(d) :
               /\ worker_id[p[1]] # worker_id[q[1]]
               /\ p[1] > q[1]
               /\ StatusOf(p) = "unique"
               /\ StatusOf(q) = "duplicate_cross_worker"
               /\ OwnerSeenBy(q) = worker_id[p[1]]

\* C6: of all register calls on one code text, at most one returns unique
\* and every other one returns a duplicate status; once no creator is still
\* writing, exactly one has returned unique (the registry being empty when
\* the lanes start): open("x") leaves no window in which two callers both
\* find the digest absent.
C6_ExactlyOneUnique ==
    dedup_handler = "registry" =>
        \A d \in Digests :
            LET calls == RegisterCalls(d)
                uniques == {p \in calls : StatusOf(p) = "unique"}
            IN  /\ Cardinality(uniques) <= 1
                /\ Cardinality(Writing(d)) <= 1
                /\ Writing(d) # {} => uniques = {}
                /\ \A p \in calls \ uniques : StatusOf(p) \in DuplicateStatuses
                /\ (Concurrent /\ calls # {} /\ Writing(d) = {})
                   => Cardinality(uniques) = 1

\* a second caller came while the first was between creating the entry and
\* writing it (it read no owner), and still only the first returned unique
C6_Witness ==
    /\ dedup_handler = "registry"
    /\ \E d \in Digests :
           \E p, q \in RegisterCalls(d) :
               /\ p[1] # q[1]
               /\ StatusOf(p) = "unique"
               /\ StatusOf(q) \in DuplicateStatuses
               /\ OwnerSeenBy(q) = None

\* the entry of a digest is the payload of the call that returned unique
C7_EntryHeldByFirstWriter ==
    dedup_handler = "registry" =>
        \A d \in Digests :
            \A p \in RegisterCalls(d) :
                StatusOf(p) = "unique"
                => registry[d] = WrittenEntry(worker_id[p[1]], p[2])

\* no step removes or rewrites an entry, and a call that meets an existing
\* entry ends with a duplicate status
C7_RegisterStep ==
    \A d \in Digests :
        /\ registry[d].state # "absent" => registry'[d].state # "absent"
        /\ registry[d].state = "written" => registry'[d] = registry[d]
        /\ \A l \in Lanes :
               ( /\ dedup_handler = "registry"
                 /\ lane[l].pc \in {"dedup", "register_read"}
                 /\ Sha256(lane[l].code) = d
                 /\ registry[d].state # "absent"
                 /\ lane'[l] # lane[l] )
               => \/ lane'[l].pc = "register_read"
                  \/ LastLog(lane'[l]).dedup.status \in DuplicateStatuses

\* C7: an existing entry is never removed, a written entry is never changed:
\* it keeps the owner and the attempt index of the call that returned unique
\* for it, and a register call that starts when the entry exists returns a
\* duplicate status.
C7_EntryPermanent == [](C7_EntryHeldByFirstWriter) /\ [][C7_RegisterStep]_vars

\* an entry written by one lane at its attempt 1 was found by another lane
\* at its attempt 2, which got a duplicate status; the entry still holds
\* attempt index 1
C7_Witness ==
    /\ dedup_handler = "registry"
    /\ \E d \in Digests :
           \E p, q \in RegisterCalls(d) :
               /\ p[1] # q[1]
               /\ StatusOf(p) = "unique"
               /\ p[2] = 1
               /\ q[2] = 2
               /\ StatusOf(q) \in DuplicateStatuses
               /\ registry[d].iter = 1

\* C8: a second register call on the same code text by the same owner, made
\* after its first call returned, returns duplicate_same_worker (the first
\* one having returned unique, or duplicate_same_worker when the owner's
\* entry was there before); and a lane does not call the verifier in an
\* attempt for which its dedup handler answered duplicate_same_worker.
C8_SameOwnerTwice ==
    /\ dedup_handler = "registry" =>
           \A d \in Digests :
               \A p, q \in RegisterCalls(d) :
                   (p[1] = q[1] /\ p[2] < q[2])
                   => /\ StatusOf(p) \in {"unique", "duplicate_same_worker"}
                      /\ StatusOf(q) = "duplicate_same_worker"
    /\ \A l \in ActiveLanes :
           \A i \in DOMAIN lane[l].log :
               ( /\ lane[l].log[i].dedup # Null
                 /\ lane[l].log[i].dedup.status = "duplicate_same_worker" )
               => /\ ~lane[l].log[i].verified
                  /\ lane[l].log[i].verification = Null

\* one lane registered the same text at attempts 1 and 2: unique, then
\* duplicate_same_worker, and attempt 2 was not verified
C8_Witness ==
    /\ dedup_handler = "registry"
    /\ \E l \in ActiveLanes :
           /\ Len(lane[l].log) = 2
           /\ lane[l].log[1].dedup # Null
           /\ lane[l].log[1].dedup.status = "unique"
           /\ lane[l].log[1].verified
           /\ lane[l].log[2].dedup # Null
           /\ lane[l].log[2].dedup.status = "duplicate_same_worker"
           /\ lane[l].log[2].code = lane[l].log[1].code
           /\ ~lane[l].log[2].verified
           /\ lane[l].pc = "done"

\* a canceled lane has made the generation steps of its earlier attempts only
C9_CanceledLane ==
    \A l \in ActiveLanes :
        lane[l].error = CanceledError
        => /\ lane[l].pc = "done"
           /\ lane[l].result = Null
           /\ Len(lane[l].log) = lane[l].attempt - 1
           /\ GenerationSteps(l) = lane[l].attempt - 1
           /\ VerifyCalls(l) <= lane[l].attempt - 1
           /\ lane[l].attempt = 1
              => (GenerationSteps(l) = 0 /\ VerifyCalls(l) = 0)

\* a lane at the head of an iteration with the signal set can only end
\* canceled, and a lane that is over takes no further step
C9_CancelStep ==
    \A l \in Lanes :
        /\ ( /\ lane[l].pc = "loop"
             /\ cancel_event.present
             /\ cancel_event.is_set
             /\ lane'[l] # lane[l] )
           => /\ lane'[l].pc = "done"
              /\ lane'[l].error = CanceledError
              /\ lane'[l].log = lane[l].log
        /\ lane[l].pc = "done" => lane'[l] = lane[l]

\* C9: a lane that finds the cancellation signal set at the head of attempt
\* n ends there with the canceled error: no generation step of attempt n is
\* made and the lane does nothing afterwards, so a lane canceled at
\* attempt 1 has made no generation and no verify call.
C9_CancelBeforeAttempt == [](C9_CanceledLane) /\ [][C9_CancelStep]_vars

\* a lane was canceled at the head of attempt 2, after one full attempt
C9_Witness ==
    \E l \in ActiveLanes :
        /\ lane[l].error = CanceledError
        /\ lane[l].attempt = 2
        /\ GenerationSteps(l) = 1
        /\ VerifyCalls(l) = 1

C11_ErrorTypesDistinct ==
    \A l \in ActiveLanes :
        lane[l].error \in TerminalErrors
        => \A e \in TerminalErrors \ {lane[l].error} :
               e.type # lane[l].error.type

\* two lanes of one call ended by two different outcomes, with errors of one
\* and the same type
C11_Witness ==
    \E l, m \in ActiveLanes :
        /\ lane[l].error = BudgetError
        /\ lane[m].error = DuplicateError
        /\ lane[l].error.type = lane[m].error.type

\* C12: when the dedup handler answers duplicate_cross_worker at attempt n,
\* the lane is over at attempt n with the duplicate error and no candidate:
\* attempt n is not verified, n generation steps were made in all and no
\* attempt after n exists.
C12_CrossWorkerAborts ==
    \A l \in ActiveLanes :
        \A i \in DOMAIN lane[l].log :
            ( /\ lane[l].log[i].dedup # Null
              /\ lane[l].log[i].dedup.status = "duplicate_cross_worker" )
            => /\ lane[l].pc = "done"
               /\ lane[l].error = DuplicateError
               /\ lane[l].result = Null
               /\ lane[l].attempt = i
               /\ Len(lane[l].log) = i
               /\ GenerationSteps(l) = i
               /\ ~lane[l].log[i].verified
               /\ lane[l].log[i].verification = Null

\* a cross-worker duplicate at attempt 1 of a budget of 2 ended the lane
C12_Witness ==
    \E l \in ActiveLanes :
        /\ max_retries = 2
        /\ lane[l].pc = "done"
        /\ lane[l].error = DuplicateError
        /\ Len(lane[l].log) = 1
        /\ lane[l].log[1].dedup.status = "duplicate_cross_worker"

\* C13: a duplicate_same_worker answer at attempt n uses up attempt n with
\* no verify call: for n < max_retries the lane goes to attempt n+1, whose
\* prompt has the repetition note naming duplicate_same_worker as feedback;
\* for n = max_retries the lane ends with the budget error; a lane whose
\* every attempt was such a duplicate made max_retries generation steps and
\* no verify call.
C13_SameWorkerSkip ==
    \A l \in ActiveLanes :
        /\ \A i \in DOMAIN lane[l].log :
               ( /\ lane[l].log[i].dedup # Null
                 /\ lane[l].log[i].dedup.status = "duplicate_same_worker" )
               => LET note == JsonDumps([reason |-> "duplicate_same_worker",
                                         dedup |-> lane[l].log[i].dedup])
                  IN  /\ ~lane[l].log[i].verified
                      /\ i < max_retries
                         => /\ lane[l].attempt > i
                            /\ Len(lane[l].log) = i
                               => /\ lane[l].attempt = i + 1
                                  /\ lane[l].feedback = note
                                  /\ lane[l].error \in {Null, CanceledError}
                            /\ Len(lane[l].log) > i
                               => /\ lane[l].log[i + 1].prompt.feedback = note
                                  /\ lane[l].log[i + 1].prompt.attempt = i + 1
                                  /\ lane[l].log[i + 1].prompt.kind
                                         = "transpile_refine"
                      /\ i = max_retries
                         => /\ lane[l].pc = "done"
                            /\ lane[l].error = BudgetError
                            /\ lane[l].result = Null
        /\ ( /\ lane[l].pc = "done"
             /\ Len(lane[l].log) = max_retries
             /\ \A i \in DOMAIN lane[l].log :
                    /\ lane[l].log[i].dedup # Null
                    /\ lane[l].log[i].dedup.status = "duplicate_same_worker" )
           => /\ lane[l].error = BudgetError
              /\ GenerationSteps(l) = max_retries
              /\ VerifyCalls(l) = 0

\* both attempts of a budget of 2 were same-worker duplicates
C13_Witness ==
    \E l \in ActiveLanes :
        /\ max_retries = 2
        /\ lane[l].pc = "done"
        /\ lane[l].error = BudgetError
        /\ Len(lane[l].log) = 2
        /\ \A i \in 1..2 :
               /\ lane[l].log[i].dedup # Null
               /\ lane[l].log[i].dedup.status = "duplicate_same_worker"
        /\ lane[l].log[2].prompt.feedback # Null

\* the attempt number and the number of iterations stay within the budget
C14_AttemptInBounds ==
    \A l \in Lanes :
        /\ lane[l].attempt \in 1..max_retries
        /\ lane[l].pc = "idle" => lane[l].attempt = 1 /\ lane[l].log = <<>>
        /\ Len(lane[l].log) <= lane[l].attempt
        /\ GenerationSteps(l) <= max_retries
        /\ \A i \in DOMAIN lane[l].log : lane[l].log[i].prompt.attempt = i

\* the attempt number never goes down and goes up by one exactly when the
\* loop goes to its next iteration, after a failed verification or a
\* same-worker duplicate
C14_AttemptStep ==
    \A l \in Lanes :
        /\ lane'[l].attempt \in {lane[l].attempt, lane[l].attempt + 1}
        /\ lane'[l].attempt = lane[l].attempt + 1
           <=> /\ lane[l].pc # "loop"
               /\ lane'[l].pc = "loop"
               /\ lane[l].pc # "idle"
        /\ (lane[l].pc # "loop" /\ lane'[l].pc = "loop" /\ lane[l].pc # "idle")
           => \/ /\ LastLog(lane'[l]).verified
                 /\ ~LastLog(lane'[l]).passed
              \/ /\ LastLog(lane'[l]).dedup # Null
                 /\ LastLog(lane'[l]).dedup.status = "duplicate_same_worker"

\* C14: in every state of a lane 1 <= attempt <= max_retries; the attempt
\* number starts at 1 and goes up by exactly one per loop iteration, after a
\* failed verification as after a same-worker duplicate, so a lane makes at
\* most max_retries generation steps.
C14_AttemptBounds == [](C14_AttemptInBounds) /\ [][C14_AttemptStep]_vars

\* a lane used up a budget of 2: one attempt skipped as a duplicate, one
\* failed by the verifier
C14_Witness ==
    \E l \in ActiveLanes :
        /\ max_retries = 2
        /\ lane[l].pc = "done"
        /\ lane[l].error = BudgetError
        /\ GenerationSteps(l) = 2
        /\ SkippedAttempts(l) = 1
        /\ VerifyCalls(l) = 1

\* C15 as stated: on a lane that was handed no temperature, the provider
\* call of attempt a gets low + (high - low) * (a - 1) / (K - 1) for
\* K = max_retries > 1 (low at attempt 1, high at attempt K) and low for
\* K = 1.
C15_TemperatureSchedule ==
    \A l \in ActiveLanes :
        lane[l].temp = Null
        => \A a \in DOMAIN lane[l].log :
               lane[l].log[a].provider_called
               => lane[l].log[a].temperature.value
                      = IF max_retries > 1
                        THEN temperature_range[1] * Denominator
                             + (temperature_range[2] - temperature_range[1])
                               * (a - 1)
                        ELSE temperature_range[1] * Denominator

\* with a budget of 2, the provider call of attempt 1 got the high bound
C15_Witness ==
    \E l \in ActiveLanes :
        /\ max_retries = 2
        /\ lane[l].temp = Null
        /\ Len(lane[l].log) >= 1
        /\ lane[l].log[1].provider_called
        /\ lane[l].log[1].temperature.value
               = temperature_range[2] * Denominator
        /\ temperature_range[2] # temperature_range[1]

\* C16 as stated: a lane with no verifier that was neither canceled nor
\* failed by its provider returns the candidate of attempt 1 after one
\* generation step and starts no attempt 2, with or without a dedup handler.
C16_NoVerifierAcceptsFirst ==
    ~verifier =>
        \A l \in ActiveLanes :
            /\ Len(lane[l].log) <= 1
            /\ (lane[l].pc = "done"
                /\ lane[l].error \notin {CanceledError, ProviderError})
               => /\ lane[l].result # Null
                  /\ lane[l].result.files = lane[l].log[1].code
                  /\ lane[l].result.notes.attempt = 1
                  /\ GenerationSteps(l) = 1

\* C16 amended: a lane with no verifier makes no verify call and returns
\* the first candidate its dedup handler does not report as a duplicate:
\* without a dedup handler that is the candidate of attempt 1, after one
\* generation step; an attempt after the first is started only after a
\* duplicate_same_worker answer, which after the last attempt ends the lane
\* with the budget error, and a duplicate_cross_worker answer ends it with
\* the duplicate error.
C16_NoVerifierAcceptsFirstNonDuplicate ==
    ~verifier =>
        \A l \in ActiveLanes :
            /\ lane[l].pc # "verify"
            /\ VerifyCalls(l) = 0
            /\ \A i \in DOMAIN lane[l].log :
                   i < Len(lane[l].log)
                   => /\ lane[l].log[i].dedup # Null
                      /\ lane[l].log[i].dedup.status = "duplicate_same_worker"
            /\ lane[l].pc = "done"
               => \/ /\ lane[l].error = Null
                     /\ lane[l].result # Null
                     /\ lane[l].result.files = LastLog(lane[l]).code
                     /\ lane[l].result.notes.attempt = Len(lane[l].log)
                     /\ lane[l].result.notes.verification = Null
                     /\ GenerationSteps(l) = Len(lane[l].log)
                     /\ \/ LastLog(lane[l]).dedup = Null
                        \/ LastLog(lane[l]).dedup.status
                               \notin DuplicateStatuses
                  \/ /\ lane[l].error = DuplicateError
                     /\ LastLog(lane[l]).dedup.status
                            = "duplicate_cross_worker"
                  \/ /\ lane[l].error = BudgetError
                     /\ Len(lane[l].log) = max_retries
                     /\ LastLog(lane[l]).dedup.status
                            = "duplicate_same_worker"
                  \/ lane[l].error \in {CanceledError, ProviderError}
            /\ dedup_handler = "none"
               => /\ Len(lane[l].log) <= 1
                  /\ lane[l].attempt = 1
                  /\ lane[l].error \notin {BudgetError, DuplicateError}

\* with no verifier, attempt 1 was a same-worker duplicate and the lane
\* returned the candidate of attempt 2
C16_Witness ==
    \E l \in ActiveLanes :
        /\ ~verifier
        /\ lane[l].pc = "done"
        /\ lane[l].result # Null
        /\ lane[l].result.notes.attempt = 2
        /\ lane[l].log[1].dedup.status = "duplicate_same_worker"
        /\ VerifyCalls(l) = 0

\* the candidate explore holds is the unmodified result of the one lane it
\* observed with a result, and transpile hands back that same candidate
C17_ResultOfFirstObserved ==
    UsesExplorer =>
        /\ explorer.result # Null
           => \E l \in explorer.seen :
                  /\ lane[l].pc = "done"
                  /\ explorer.result = lane[l].result
                  /\ explorer.result.files = LastLog(lane[l]).code
                  /\ explorer.result.notes.variant = VariantLabel(l)
                  /\ \A m \in explorer.seen \ {l} : lane[m].result = Null
                  /\ \A m \in LanesOf(1) \ {l} :
                         /\ lane[m].result # explorer.result
                         /\ lane[m].notes # Null
                            => lane[m].notes # explorer.result.notes
        /\ (transpile[1].pc = "done" /\ transpile[1].result # Null)
           => transpile[1].result = explorer.result

\* once explore holds a candidate, no later completion replaces it or is
\* looked at
C17_ResultStep ==
    explorer.result # Null
    => /\ explorer'.result = explorer.result
       /\ explorer'.seen = explorer.seen

\* C17: in parallel mode transpile returns exactly the candidate of the
\* first lane the explorer observed to complete with a result, files and
\* notes unmodified; nothing of another lane is in it, also when another
\* lane completes with a result later.
C17_ParallelFirstWins ==
    [](C17_ResultOfFirstObserved) /\ [][C17_ResultStep]_vars

\* transpile returned the candidate of one lane while another lane, which
\* the explorer never looked at, had completed with a candidate of its own
C17_Witness ==
    /\ UsesExplorer
    /\ transpile[1].pc = "done"
    /\ transpile[1].result # Null
    /\ \E m \in LanesOf(1) \ explorer.seen :
           /\ lane[m].pc = "done"
           /\ lane[m].result # Null
           /\ lane[m].result # transpile[1].result

\* C18 as stated: once explore holds a lane's result its return is not held
\* back by the other lanes: it can return whether or not they are over.
C18_ReturnsWithoutWaiting ==
    (UsesExplorer /\ explorer.pc = "shutdown") => ENABLED ExploreShutdown

\* explore holds a result and has not returned, a loser lane being still
\* in its generation step
C18_Witness ==
    /\ UsesExplorer
    /\ explorer.pc = "shutdown"
    /\ explorer.result # Null
    /\ \E m \in LanesOf(1) : lane[m].pc = "generate"
    /\ ~ENABLED ExploreShutdown

\* C19: explore passes over a lane that raised; it returns no candidate
\* exactly when every lane raised (or gave none), and then, and only then,
\* parallel-mode transpile raises the all-parallel-attempts-failed error,
\* which names the unit; otherwise transpile returns a candidate.
C19_ExploreNeverRaises ==
    UsesExplorer =>
        /\ \A l \in explorer.seen :
               lane[l].error # Null
               => \/ explorer.pc = "waiting"
                  \/ explorer.result # Null
                  \/ explorer.seen = LanesOf(1)
        /\ explorer.pc = "returned"
           => (explorer.result = Null
               <=> \A l \in LanesOf(1) :
                       lane[l].pc = "done" /\ lane[l].result = Null)
        /\ transpile[1].pc = "done"
           => /\ explorer.pc = "returned"
              /\ transpile[1].error = AllFailedError
                 <=> explorer.result = Null
              /\ transpile[1].error = Null <=> transpile[1].result # Null
              /\ transpile[1].error # Null
                 => /\ transpile[1].error.unit = UnitId
                    /\ transpile[1].error.message
                           = "All parallel attempts failed for unit"
                    /\ \A l \in LanesOf(1) :
                           transpile[1].error # lane[l].error

\* one lane raised, explore went on and transpile returned the candidate of
\* another lane
C19_Witness ==
    /\ UsesExplorer
    /\ transpile[1].pc = "done"
    /\ transpile[1].result # Null
    /\ \E l \in explorer.seen : lane[l].error = BudgetError

\* C20 as stated: the error that ends a lane or a call names the unit, and
\* the budget error holds the verification detail of the last failed
\* attempt.
C20_ErrorsCarryUnitAndDetail ==
    /\ \A l \in ActiveLanes :
           lane[l].error \in TerminalErrors
           => /\ lane[l].error.unit = UnitId
              /\ (lane[l].error = BudgetError /\ LastLog(lane[l]).verified)
                 => lane[l].error.verification
                        = LastLog(lane[l]).verification
    /\ \A c \in Calls :
           transpile[c].error = AllFailedError
           => transpile[c].error.unit = UnitId

\* a lane used up its budget on failed verifications and its error holds no
\* verification detail
C20_Witness ==
    \E l \in ActiveLanes :
        /\ lane[l].error = BudgetError
        /\ LastLog(lane[l]).verified
        /\ LastLog(lane[l]).verification # Null
        /\ lane[l].error.verification = Null

\* C21: in each attempt the provider is called iff there was no stream
\* adapter, the stream call raised, or the stream gave no text; when the
\* stream gave a text, that text is the code of the attempt's candidate and
\* the provider is not called.
C21_StreamThenProvider ==
    \A l \in ActiveLanes :
        \A i \in DOMAIN lane[l].log :
            LET e == lane[l].log[i] IN
            Generated(e)
            => /\ e.stream_called <=> e.stream # Null
               /\ e.provider_called
                  <=> \/ ~e.stream_called
                      \/ e.stream.error # None
                      \/ e.stream.output_text = EmptyText
               /\ ~e.provider_called
                  => /\ e.code = e.stream.output_text
                     /\ e.code # EmptyText
                     /\ e.temperature = Null
               /\ (i = Len(lane[l].log) /\ lane[l].notes # Null
                   /\ lane[l].notes.attempt = i)
                  => lane[l].notes.prompt_result
                         = IF e.provider_called THEN "provider"
                           ELSE "event_stream"

\* one lane, two attempts: the stream raised in the first, which fell back
\* to the provider, and gave the text of the second, with no provider call
C21_Witness ==
    \E l \in ActiveLanes :
        /\ Len(lane[l].log) = 2
        /\ lane[l].log[1].stream_called
        /\ lane[l].log[1].stream.error # None
        /\ lane[l].log[1].provider_called
        /\ lane[l].log[2].stream_called
        /\ ~lane[l].log[2].provider_called
        /\ lane[l].log[2].code \in Codes
        /\ lane[l].pc = "done"
        /\ lane[l].result # Null
        /\ lane[l].result.files = lane[l].log[2].code

C23_Rank(s) ==
    IF s.pc = "idle" THEN 0
    ELSE IF s.pc = "done" THEN 6 * max_retries + 1
    ELSE 6 * (s.attempt - 1)
         + (CASE s.pc = "loop" -> 1
              [] s.pc = "generate" -> 2
              [] s.pc = "dedup" -> 3
              [] s.pc \in {"register_write", "register_read"} -> 4
              [] s.pc = "verify" -> 5)

\* a lane that is over has a candidate or an error and not both, one that is
\* not over has neither; a lane in its loop has a step it can take
C23_OneOutcome ==
    \A l \in ActiveLanes :
        /\ lane[l].pc = "done"
           => (lane[l].result # Null) # (lane[l].error # Null)
        /\ lane[l].pc # "done"
           => (lane[l].result = Null /\ lane[l].error = Null)
        /\ lane[l].error # Null
           => lane[l].error \in TerminalErrors \cup {ProviderError}
        /\ Len(lane[l].log) <= max_retries
        /\ lane[l].pc \notin {"idle", "done"} => ENABLED LaneStep(l)

\* every step of a lane takes it further, and nothing follows its outcome
C23_Progress ==
    \A l \in Lanes :
        lane'[l] # lane[l] => C23_Rank(lane'[l]) > C23_Rank(lane[l])

\* C23: every run of a lane ends in exactly one outcome, a candidate or an
\* error, never both and never neither: its steps never block, each takes
\* it further within at most max_retries iterations, and when every call
\* returns every started lane gets to its outcome.
C23_OneTerminalOutcome ==
    /\ [](C23_OneOutcome)
    /\ [][C23_Progress]_vars
    /\ <>[](\A l \in Lanes : lane[l].pc \in {"idle", "done"})

\* a lane of a budget of 2 ended with a candidate at its second iteration
C23_Witness ==
    \E l \in ActiveLanes :
        /\ max_retries = 2
        /\ lane[l].pc = "done"
        /\ lane[l].result # Null
        /\ lane[l].error = Null
        /\ Len(lane[l].log) = 2

\* the owner that created the entry of d: the one in the written payload,
\* else the one of the lane that is between creating and writing it
C24_Creator(d) ==
    IF registry[d].state = "written" THEN registry[d].owner_worker_id
    ELSE worker_id[CHOOSE l \in Writing(d) : TRUE]

\* C24 as stated: a register call that found the entry existing returns
\* duplicate_same_worker iff the owner that created the entry is its own,
\* and duplicate_cross_worker otherwise, also when it read the entry before
\* the creator had written it.
C24_ClassifiedByCreator ==
    dedup_handler = "registry" =>
        \A d \in Digests :
            \A p \in RegisterCalls(d) :
                StatusOf(p) \in DuplicateStatuses
                => (StatusOf(p) = "duplicate_same_worker"
                    <=> C24_Creator(d) = worker_id[p[1]])

\* two lanes of one owner registered the same text; the second read the
\* entry before it was written, found no owner and got
\* duplicate_cross_worker
C24_Witness ==
    /\ dedup_handler = "registry"
    /\ \E d \in Digests :
           \E p \in RegisterCalls(d) :
               /\ StatusOf(p) = "duplicate_cross_worker"
               /\ OwnerSeenBy(p) = None
               /\ C24_Creator(d) = worker_id[p[1]]
               /\ lane[p[1]].error = DuplicateError

\* C26 as stated: with a factory as without one, every attempt that
\* generates makes its provider call, and the candidate's code is what the
\* provider gave.
C26_FactoryKeepsProviderCalls ==
    \A l \in ActiveLanes :
        \A i \in DOMAIN lane[l].log :
            Generated(lane[l].log[i])
            => /\ lane[l].log[i].provider_called
               /\ (i = Len(lane[l].log) /\ lane[l].notes # Null
                   /\ lane[l].notes.attempt = i)
                  => lane[l].notes.prompt_result = "provider"

\* C26 amended: a factory changes an attempt only when its stream gives a
\* text: that text is then the code and the provider is not called.  In
\* every other attempt (no adapter, stream raised, no text) the provider is
\* called as without a factory, with the same temperature, and gives the
\* code; with or without a factory every candidate that is not a duplicate
\* is verified once.
C26_FactoryChangesStreamedAttemptsOnly ==
    \A l \in ActiveLanes :
        \A i \in DOMAIN lane[l].log :
            LET e == lane[l].log[i]
                text == IF e.stream = Null THEN EmptyText
                        ELSE e.stream.output_text
            IN  Generated(e)
                => /\ ~event_factory => (~e.stream_called /\ e.provider_called)
                   /\ text = EmptyText
                      => /\ e.provider_called
                         /\ e.temperature
                                = [value |->
                                       TemperatureValue(lane[l].temp, i)]
                   /\ text # EmptyText
                      => /\ event_factory
                         /\ ~e.provider_called
                         /\ e.code = text
                   /\ ( /\ verifier
                        /\ e.code # None
                        /\ i < Len(lane[l].log) \/ lane[l].pc = "done"
                        /\ e.dedup = Null
                           \/ e.dedup.status \notin DuplicateStatuses )
                      => e.verified

\* with a factory, the stream gave the text of attempt 1, which failed
\* verification, and no text at attempt 2, whose code came from the provider
C26_Witness ==
    \E l \in ActiveLanes :
        /\ event_factory
        /\ Len(lane[l].log) = 2
        /\ lane[l].log[1].stream_called
        /\ ~lane[l].log[1].provider_called
        /\ lane[l].log[1].verified
        /\ lane[l].log[2].stream_called
        /\ lane[l].log[2].stream.error = None
        /\ lane[l].log[2].provider_called
        /\ lane[l].log[2].verified

\* C28 as stated: under the explorer every provider call of lane idx gets
\* _pick_temperature(idx), whatever the attempt, a low bound of 0 included.
C28_LaneTemperatureFixed ==
    UsesExplorer =>
        \A l \in LanesOf(1) :
            \A a \in DOMAIN lane[l].log :
                lane[l].log[a].provider_called
                => lane[l].log[a].temperature.value = PickTemperature(l - 1)

\* with a low bound of 0, lane 0 was handed temperature 0 and its provider
\* call got another one
C28_Witness ==
    /\ UsesExplorer
    /\ temperature_range[1] = 0
    /\ lane[1].temp = [value |-> 0]
    /\ Len(lane[1].log) >= 1
    /\ lane[1].log[1].provider_called
    /\ lane[1].log[1].temperature.value # 0

\* the code of the latest of the attempts before i that was not skipped as
\* a same-worker duplicate, None when there is none
C29_LastKept(s, i) ==
    LET kept == {j \in 1..(i - 1) :
                    /\ s.log[j].code # None
                    /\ \/ s.log[j].dedup = Null
                       \/ s.log[j].dedup.status \notin DuplicateStatuses}
    IN  IF kept = {} THEN None
        ELSE s.log[CHOOSE j \in kept : \A k \in kept : k <= j].code

\* the prompt of every attempt and the lane's previous_code hold the code of
\* the latest attempt that was not skipped
C29_PreviousCodeIsLastKept ==
    \A l \in ActiveLanes :
        /\ \A i \in DOMAIN lane[l].log :
               lane[l].log[i].prompt.previous_code
                   = IF C29_LastKept(lane[l], i) \in {None, EmptyText}
                     THEN "unit.source_code"
                     ELSE C29_LastKept(lane[l], i)
        /\ lane[l].pc \in {"loop", "done"}
           => (lane[l].error \notin {ProviderError, DuplicateError}
               => lane[l].previous_code
                      = C29_LastKept(lane[l], Len(lane[l].log) + 1))

\* the step that skips a same-worker duplicate leaves previous_code as it was
C29_SkipStep ==
    \A l \in Lanes :
        ( /\ lane[l].pc \in {"dedup", "register_write", "register_read"}
          /\ lane'[l] # lane[l]
          /\ LastLog(lane'[l]).dedup # Null
          /\ LastLog(lane'[l]).dedup.status = "duplicate_same_worker" )
        => lane'[l].previous_code = lane[l].previous_code

\* C29: skipping a same-worker duplicate leaves previous_code unchanged: the
\* prompt of the next attempt gets the code of the latest attempt that was
\* not skipped (the unit's source when there is none, or when that code is
\* empty), not the code of the skipped duplicate.
C29_SkipKeepsPreviousCode ==
    [](C29_PreviousCodeIsLastKept) /\ [][C29_SkipStep]_vars

\* attempt 1 was kept with one text, attempt 2 was skipped as a duplicate
\* with another text, and previous_code is still the text of attempt 1
C29_Witness ==
    \E l \in ActiveLanes :
        /\ Len(lane[l].log) = 2
        /\ lane[l].log[1].verified
        /\ lane[l].log[1].code \in Codes
        /\ lane[l].log[2].dedup # Null
        /\ lane[l].log[2].dedup.status = "duplicate_same_worker"
        /\ lane[l].log[2].code \in Codes \ {lane[l].log[1].code}
        /\ lane[l].previous_code = lane[l].log[1].code

\* ---------------------------------------------------------------- the thread pool of ParallelExplorer.explore
\* the attempt loop at rest, while the pool or the manager is explored
AgentIdle ==
    /\ max_retries = 1
    /\ temperature_range = <<2, 6>>
    /\ parallel_workers = 1
    /\ processes = 1
    /\ verifier = TRUE
    /\ dedup_handler = "none"
    /\ event_factory = FALSE
    /\ cancel_event = [present |-> FALSE, is_set |-> FALSE]
    /\ worker_id = [l \in Lanes |-> "variant_00"]
    /\ registry = [d \in Digests |-> AbsentEntry]
    /\ lane = [l \in Lanes |-> InitLane]
    /\ explorer = [pc |-> "idle", seen |-> {}, result |-> Null]
    /\ transpile = [c \in Lanes |->
                       [pc |-> "idle", result |-> Null, error |-> Null]]

\* ThreadPoolExecutor() with no max_workers: min(32, os.cpu_count() + 4)
ThreadPoolMaxWorkers == Min(32, pool.cpu_count + 4)

PoolFutures(state) == {i \in PoolLanes : pool.futures[i] = state}
PoolFinished == PoolFutures("returned_none") \cup PoolFutures("returned_value")

\* with ThreadPoolExecutor() as executor, for n callables
PoolExplore(n) ==
    /\ pool.pc = "idle"
    /\ pool' = [pool EXCEPT !.pc = "submit", !.n = n]
    /\ UNCHANGED <<agentVars, manager, procs>>

\* executor.submit(func), one callable after the other
PoolSubmit(i) ==
    /\ pool.pc = "submit"
    /\ i <= pool.n
    /\ pool.futures[i] = "unsubmitted"
    /\ \A j \in 1..(i - 1) : pool.futures[j] # "unsubmitted"
    /\ pool' = [pool EXCEPT !.futures[i] = "pending",
                            !.pc = IF i = pool.n THEN "as_completed"
                                   ELSE "submit"]
    /\ UNCHANGED <<agentVars, manager, procs>>

\* a pool thread takes the oldest queued work item; the pool has at most
\* ThreadPoolMaxWorkers threads, each running one item at a time
PoolStart(i) ==
    /\ pool.futures[i] = "pending"
    /\ \A j \in 1..(i - 1) : pool.futures[j] # "pending"
    /\ Cardinality(PoolFutures("running")) < ThreadPoolMaxWorkers
    /\ pool' = [pool EXCEPT !.futures[i] = "running"]
    /\ UNCHANGED <<agentVars, manager, procs>>

\* the lane's callable returns a candidate, or returns None (an exception
\* is skipped by explore like a None)
PoolFinish(i) ==
    /\ pool.futures[i] = "running"
    /\ \E r \in {"returned_none", "returned_value"} :
           pool' = [pool EXCEPT !.futures[i] = r]
    /\ UNCHANGED <<agentVars, manager, procs>>

\* for future in as_completed(futures): the first result that is not None
\* cancels the futures still queued and is returned
PoolNextCompleted(i) ==
    /\ pool.pc = "as_completed"
    /\ i \in PoolFinished \ pool.seen
    /\ IF pool.futures[i] = "returned_value"
       THEN pool' = [pool EXCEPT
                !.futures = [j \in PoolLanes |->
                                IF pool.futures[j] = "pending" THEN "cancelled"
                                ELSE pool.futures[j]],
                !.result = [lane |-> i],
                !.pc = "shutdown"]
       ELSE pool' = [pool EXCEPT !.seen = @ \cup {i}]
    /\ UNCHANGED <<agentVars, manager, procs>>

\* every future was yielded and none had a result: return None
PoolExhausted ==
    /\ pool.pc = "as_completed"
    /\ pool.seen = 1..pool.n
    /\ pool' = [pool EXCEPT !.pc = "shutdown"]
    /\ UNCHANGED <<agentVars, manager, procs>>

\* leaving the with block: shutdown(wait=True) joins the pool's threads
PoolShutdown ==
    /\ pool.pc = "shutdown"
    /\ PoolFutures("running") = {}
    /\ PoolFutures("pending") = {}
    /\ pool' = [pool EXCEPT !.pc = "done"]
    /\ UNCHANGED <<agentVars, manager, procs>>

PoolInit ==
    /\ AgentIdle
    /\ \E c \in 1..MaxCpus : pool = [IdlePool EXCEPT !.cpu_count = c]
    /\ manager = IdleManager
    /\ procs = NoProcesses

PoolNext ==
    \/ \E n \in PoolLanes : PoolExplore(n)
    \/ \E i \in PoolLanes : PoolSubmit(i)
    \/ \E i \in PoolLanes : PoolStart(i)
    \/ \E i \in PoolLanes : PoolFinish(i)
    \/ \E i \in PoolLanes : PoolNextCompleted(i)
    \/ PoolExhausted
    \/ PoolShutdown

PoolSpec == PoolInit /\ [][PoolNext]_vars

\* C25: the pool of one explore call has one worker per submitted lane: no
\* lane stays queued while the pool's threads are all busy with other lanes
C25_NoLaneQueued ==
    PoolFutures("pending") # {} =>
        Cardinality(PoolFutures("running")) < ThreadPoolMaxWorkers

\* all the lanes of a call with several lanes run at the same time
C25_Witness ==
    /\ pool.n > 1
    /\ PoolFutures("running") = 1..pool.n

\* ---------------------------------------------------------------- WorkerManager.run
\* WorkerManagerSettings.active_workers
ActiveWorkers == Max(1, manager.workers)

\* WorkerManagerSettings.active_variants
ActiveVariants ==
    IF manager.variants_per_unit > 0 THEN manager.variants_per_unit
    ELSE ActiveWorkers

\* the payloads _transpile_with_workers builds: one per variant
Tasks == 0..(ActiveVariants - 1)

\* temp_workdirs: one directory per worker of the manager
Workdirs == 0..(ActiveWorkers - 1)

\* zip(tasks, workdirs) stops at the shorter of the two
Zipped == 0..(Min(Cardinality(Tasks), Cardinality(Workdirs)) - 1)

ManagerError == Raise("Worker manager failed to produce a candidate", None)

Alive(t) == procs[t].state \in {"running", "put"}

\* result = manager.run(tasks)
ManagerRun ==
    /\ manager.pc = "idle"
    /\ manager' = [manager EXCEPT !.pc = "start"]
    /\ UNCHANGED <<agentVars, pool, procs>>

\* proc.start() for the next pair of zip(tasks, workdirs); after the last
\* pair, winner = None and the poll loop begins
ManagerStart ==
    /\ manager.pc = "start"
    /\ IF manager.next \in Zipped
       THEN /\ procs' = [procs EXCEPT ![manager.next].state = "running"]
            /\ manager' = [manager EXCEPT !.next = @ + 1]
       ELSE /\ manager' = [manager EXCEPT !.pc = "get", !.winner = Null]
            /\ UNCHANGED procs
    /\ UNCHANGED <<agentVars, pool>>

\* _worker_entry: worker_fn returned (or raised) and its result is put on
\* the queue
WorkerPut(t) ==
    /\ procs[t].state = "running"
    /\ \E ok \in BOOLEAN :
           LET result == [success |-> ok, variant |-> t]
           IN  /\ procs' = [procs EXCEPT ![t] =
                      [state |-> "put", result |-> result]]
               /\ manager' = [manager EXCEPT !.queue = Append(@, result)]
    /\ UNCHANGED <<agentVars, pool>>

\* _worker_entry returns and the process ends
WorkerExit(t) ==
    /\ procs[t].state = "put"
    /\ procs' = [procs EXCEPT ![t].state = "exited"]
    /\ UNCHANGED <<agentVars, pool, manager>>

\* result_queue.get(timeout=0.1) returns a result
ManagerGet ==
    /\ manager.pc = "get"
    /\ manager.queue # <<>>
    /\ LET result == Head(manager.queue)
       IN  manager' = [manager EXCEPT
               !.queue = Tail(@),
               !.winner = IF result.success THEN result ELSE @,
               !.success_event = @ \/ result.success,
               !.pc = IF result.success THEN "join" ELSE "get"]
    /\ UNCHANGED <<agentVars, pool, procs>>

\* result_queue.get(timeout=0.1) raises queue.Empty
ManagerTimeout ==
    /\ manager.pc = "get"
    /\ manager.queue = <<>>
    /\ manager' = [manager EXCEPT !.pc = "check_alive"]
    /\ UNCHANGED <<agentVars, pool, procs>>

\* if not any(p.is_alive() for p in processes): break, else continue
ManagerCheckAlive ==
    /\ manager.pc = "check_alive"
    /\ manager' = [manager EXCEPT
           !.pc = IF \E t \in TaskIds : Alive(t) THEN "get" ELSE "join"]
    /\ UNCHANGED <<agentVars, pool, procs>>

\* proc.join(timeout=5.0) for the next started process; a process still
\* alive after it is terminated
ManagerJoin ==
    /\ manager.pc = "join"
    /\ manager.joined < manager.next
    /\ procs' = [procs EXCEPT ![manager.joined].state =
                    IF Alive(manager.joined) THEN "terminated" ELSE @]
    /\ manager' = [manager EXCEPT !.joined = @ + 1]
    /\ UNCHANGED <<agentVars, pool>>

\* return winner; _transpile_with_workers raises when it is None
ManagerReturn ==
    /\ manager.pc = "join"
    /\ manager.joined = manager.next
    /\ manager' = [manager EXCEPT
           !.pc = "done",
           !.error = IF manager.winner = Null THEN ManagerError ELSE Null]
    /\ UNCHANGED <<agentVars, pool, procs>>

ManagerInit ==
    /\ AgentIdle
    /\ pool = IdlePool
    /\ \E w \in 0..MaxManagerWorkers, v \in 0..MaxVariants :
           manager = [IdleManager EXCEPT !.workers = w,
                                         !.variants_per_unit = v]
    /\ procs = NoProcesses

ManagerNext ==
    \/ ManagerRun
    \/ ManagerStart
    \/ \E t \in TaskIds : WorkerPut(t)
    \/ \E t \in TaskIds : WorkerExit(t)
    \/ ManagerGet
    \/ ManagerTimeout
    \/ ManagerCheckAlive
    \/ ManagerJoin
    \/ ManagerReturn

ManagerSpec == ManagerInit /\ [][ManagerNext]_vars

\* the workers that put a success result on the queue
Reported == {t \in TaskIds : procs[t].result # Null /\ procs[t].result.success}

\* C27: when some worker put a success result on the queue, run returns a
\* success result and not None
C27_SuccessReturned ==
    (manager.pc = "done" /\ Reported # {}) =>
        /\ manager.winner # Null
        /\ manager.winner.success

\* run returns the success result a worker reported
C27_Witness ==
    /\ manager.pc = "done"
    /\ Reported # {}
    /\ manager.winner # Null
    /\ manager.winner.variant \in Reported

\* C30: run starts one worker process for every task it is given, whatever
\* the configured worker count and variants per unit
C30_EveryTaskStarted ==
    manager.pc \notin {"idle", "start"} =>
        \A t \in Tasks : procs[t].state # "unstarted"

\* run started a process for each of several tasks
C30_Witness ==
    /\ manager.pc \notin {"idle", "start"}
    /\ Cardinality(Tasks) > 1
    /\ \A t \in Tasks : procs[t].state # "unstarted"

====
